---- MODULE Spec2Model ----
(***************************************************************************)
(* Model of src/whatsapp/utils.ts: conversion between E.164 phone numbers  *)
(* and WhatsApp JIDs, the on-disk LID reverse-mapping scan, and the        *)
(* asynchronous resolver with its live-lookup fallback.                    *)
(*                                                                         *)
(* Strings are sequences of one-character strings, so that the regular     *)
(* expressions, the prefix stripping and the file-name template are        *)
(* computed character by character.  Directory paths are atoms (TLA+       *)
(* strings): the module only resolves, compares and joins them.            *)
(***************************************************************************)
EXTENDS Integers, Sequences, FiniteSets, TLC

VARIABLES fs, cfg, calls

vars == <<fs, cfg, calls>>

----------------------------------------------------------------------------
(* Values a call can produce: null, a string, or a raised exception.       *)

Null == [t |-> "null", v |-> <<>>]

Str(s) == [t |-> "str", v |-> s]

Thrown == [t |-> "throw", v |-> <<>>]

\* JavaScript truthiness of a string | null | undefined value.
Truthy(x) == x.t = "str" /\ x.v # <<>>

----------------------------------------------------------------------------
(* String literals of the source.                                          *)

PREFIX == <<"w", "h", "a", "t", "s", "a", "p", "p", ":">>

S_WHATSAPP_NET == <<"s", ".", "w", "h", "a", "t", "s", "a", "p", "p", ".", "n", "e", "t">>

HOSTED == <<"h", "o", "s", "t", "e", "d">>

LID == <<"l", "i", "d">>

HOSTED_LID == <<"h", "o", "s", "t", "e", "d", ".", "l", "i", "d">>

LID_MAPPING == <<"l", "i", "d", "-", "m", "a", "p", "p", "i", "n", "g", "-">>

REVERSE_JSON == <<"_", "r", "e", "v", "e", "r", "s", "e", ".", "j", "s", "o", "n">>

DIGITS == {"0", "1", "2", "3", "4", "5", "6", "7", "8", "9"}

----------------------------------------------------------------------------
(* String primitives (String.prototype.startsWith, includes, trim, and the *)
(* pieces the regular expressions are built from).                         *)

IsDigit(ch) == ch \in DIGITS

AllDigits(s) == \A i \in 1..Len(s) : IsDigit(s[i])

Drop(s, n) == SubSeq(s, n + 1, Len(s))

StartsWith(s, p) == Len(s) >= Len(p) /\ SubSeq(s, 1, Len(p)) = p

EndsWith(s, p) == Len(s) >= Len(p) /\ Drop(s, Len(s) - Len(p)) = p

Includes(s, ch) == \E i \in 1..Len(s) : s[i] = ch

RECURSIVE TrimStart(_)
TrimStart(s) == IF s # <<>> /\ Head(s) = " " THEN TrimStart(Tail(s)) ELSE s

RECURSIVE TrimEnd(_)
TrimEnd(s) == IF s # <<>> /\ s[Len(s)] = " " THEN TrimEnd(SubSeq(s, 1, Len(s) - 1)) ELSE s

Trim(s) == TrimEnd(TrimStart(s))

\* Length of the longest prefix of s made of digits: what a greedy \d+ takes.
RECURSIVE DigitRun(_)
DigitRun(s) == IF s # <<>> /\ IsDigit(Head(s)) THEN 1 + DigitRun(Tail(s)) ELSE 0

\* Mutant of JidMatch: the capture group holds the device digits when a
\* device suffix is present.
JidMatchCapturesDevice(jid, servers) ==
    LET n == DigitRun(jid)
        rest == Drop(jid, n)
        m == IF rest # <<>> /\ Head(rest) = ":" THEN DigitRun(Tail(rest)) ELSE 0
        afterDevice == IF m > 0 THEN Drop(rest, 1 + m) ELSE rest
    IN  IF n > 0 /\ afterDevice # <<>> /\ Head(afterDevice) = "@"
            /\ Tail(afterDevice) \in servers
        THEN [matched |-> TRUE,
              digits |-> IF m > 0 THEN SubSeq(rest, 2, 1 + m) ELSE SubSeq(jid, 1, n)]
        ELSE [matched |-> FALSE, digits |-> <<>>]

\* jid.match(/^(\d+)(?::\d+)?@(server1|server2)$/): the capture group 1 on a
\* match.  \d+ cannot give digits back (what follows is ':' or '@'), so the
\* match, when there is one, takes the whole leading run of digits.
JidMatch(jid, servers) ==
    LET n == DigitRun(jid)
        rest == Drop(jid, n)
        m == IF rest # <<>> /\ Head(rest) = ":" THEN DigitRun(Tail(rest)) ELSE 0
        afterDevice == IF m > 0 THEN Drop(rest, 1 + m) ELSE rest
    IN  IF n > 0 /\ afterDevice # <<>> /\ Head(afterDevice) = "@"
            /\ Tail(afterDevice) \in servers
        THEN [matched |-> TRUE, digits |-> SubSeq(jid, 1, n)]
        ELSE [matched |-> FALSE, digits |-> <<>>]

\* Mutant of LidSuffixTest: the dot of @hosted\.lid is not escaped, so it
\* stands for any character.
LidSuffixTestUnescapedDot(jid) ==
    \/ EndsWith(jid, <<"@">> \o LID)
    \/ /\ Len(jid) >= 11
       /\ EndsWith(jid, LID)
       /\ SubSeq(jid, Len(jid) - 10, Len(jid) - 4) = <<"@">> \o HOSTED

\* /(@lid|@hosted\.lid)$/.test(jid)
LidSuffixTest(jid) ==
    \/ EndsWith(jid, <<"@">> \o LID)
    \/ EndsWith(jid, <<"@">> \o HOSTED_LID)

----------------------------------------------------------------------------
(* Collaborators imported from ../utils.js and ../globals.js.              *)

PHONE_PUNCT == {"+", " ", "-", "(", ")", "."}

\* normalizeE164: the canonical E.164 form, '+' followed by the digits of
\* the input; fails when the input is no phone number (it holds no digit,
\* or a character that is neither a digit nor phone punctuation).
normalizeE164(number) ==
    IF \/ SelectSeq(number, IsDigit) = <<>>
       \/ \E i \in 1..Len(number) : ~IsDigit(number[i]) /\ number[i] \notin PHONE_PUNCT
    THEN Thrown
    ELSE Str(<<"+">> \o SelectSeq(number, IsDigit))

\* The undefined directory (an option that was not given).
NoDir == "<undefined>"

\* resolveUserPath: the absolute path of a user-supplied path ('~' is the
\* home directory /home/u; an absolute path is itself).
resolveUserPath(dir) ==
    CASE dir = "~/auth" -> "/home/u/auth"
      [] dir = "~/.cfg/credentials" -> "/home/u/.cfg/credentials"
      [] OTHER -> dir

\* resolveOAuthDir(): the process-wide OAuth credential directory.
resolveOAuthDir(c) == c.oauthDir

\* CONFIG_DIR: the process-wide base configuration directory.
CONFIG_DIR(c) == c.configDir

\* shouldLogVerbose()
shouldLogVerbose(c) == c.verbose

\* path.join(CONFIG_DIR, "credentials")
pathJoin(dir, name) == dir \o "/" \o name

----------------------------------------------------------------------------
(* withWhatsAppPrefix and toWhatsappJid.                                   *)

withWhatsAppPrefix(number) ==
    IF StartsWith(number, PREFIX) THEN number ELSE PREFIX \o number

\* Mutant of toWhatsappJid: the non-digit characters of the normalized
\* number are kept.
toWhatsappJidKeepsPlus(number) ==
    LET withoutPrefix ==
            Trim(IF StartsWith(number, PREFIX) THEN Drop(number, Len(PREFIX)) ELSE number)
        e164 == normalizeE164(withoutPrefix)
    IN  IF Includes(withoutPrefix, "@") THEN Str(withoutPrefix)
        ELSE IF e164.t = "throw" THEN Thrown
        ELSE Str(e164.v \o <<"@">> \o S_WHATSAPP_NET)

\* Mutant of toWhatsappJid: the number is normalized before the test for "@".
toWhatsappJidNormalizesFirst(number) ==
    LET withoutPrefix ==
            Trim(IF StartsWith(number, PREFIX) THEN Drop(number, Len(PREFIX)) ELSE number)
        e164 == normalizeE164(withoutPrefix)
    IN  IF e164.t = "throw" THEN Thrown
        ELSE IF Includes(withoutPrefix, "@") THEN Str(withoutPrefix)
        ELSE Str(SelectSeq(e164.v, IsDigit) \o <<"@">> \o S_WHATSAPP_NET)

toWhatsappJid(number) ==
    LET withoutPrefix ==
            Trim(IF StartsWith(number, PREFIX) THEN Drop(number, Len(PREFIX)) ELSE number)
        e164 == normalizeE164(withoutPrefix)
    IN  IF Includes(withoutPrefix, "@") THEN Str(withoutPrefix)
        ELSE IF e164.t = "throw" THEN Thrown
        ELSE Str(SelectSeq(e164.v, IsDigit) \o <<"@">> \o S_WHATSAPP_NET)

----------------------------------------------------------------------------
(* resolveLidMappingDirs: the ordered, duplicate-free list of directories. *)

InSeq(x, s) == \E i \in 1..Len(s) : s[i] = x

\* Mutant of addDir: the directories are kept in an array, not in a Set.
addDirArrayPush(dirs, dir) ==
    IF dir \in {NoDir, ""} THEN dirs
    ELSE Append(dirs, resolveUserPath(dir))

\* addDir: skip a falsy entry; Set.add keeps the first insertion's place.
addDir(dirs, dir) ==
    IF dir \in {NoDir, ""} THEN dirs
    ELSE IF InSeq(resolveUserPath(dir), dirs) THEN dirs
    ELSE Append(dirs, resolveUserPath(dir))

RECURSIVE addDirs(_, _)
addDirs(dirs, list) ==
    IF list = <<>> THEN dirs ELSE addDirs(addDir(dirs, Head(list)), Tail(list))

\* Mutant of resolveLidMappingDirs: the process-wide directories are added
\* before the caller's.
resolveLidMappingDirsProcessFirst(opts, c) ==
    addDirs(addDir(addDir(addDir(<<>>, resolveOAuthDir(c)),
                          pathJoin(CONFIG_DIR(c), "credentials")),
                   opts.authDir),
            opts.lidMappingDirs)

resolveLidMappingDirs(opts, c) ==
    addDir(addDir(addDirs(addDir(<<>>, opts.authDir), opts.lidMappingDirs),
                  resolveOAuthDir(c)),
           pathJoin(CONFIG_DIR(c), "credentials"))

----------------------------------------------------------------------------
(* The file system and readLidReverseMapping.                              *)
(* f is a function from <<directory, file name>> (the files that exist)    *)
(* to [readable, data].                                                    *)

mappingFilename(lid) == LID_MAPPING \o lid \o REVERSE_JSON

JSON_NULL == <<"n", "u", "l", "l">>

JSON_TRUE == <<"t", "r", "u", "e">>

\* JSON.parse on the texts the model stores: null, true, a non-negative
\* integer without leading zero, a string without escapes; white space
\* around the value is allowed; anything else is a SyntaxError.  A number is
\* kept as its decimal digits, which is also what String() renders.
JSONparse(data) ==
    LET text == Trim(data)
    IN  IF text = JSON_NULL THEN [t |-> "null", v |-> <<>>]
        ELSE IF text = JSON_TRUE THEN [t |-> "boolean", v |-> text]
        ELSE IF text # <<>> /\ AllDigits(text) /\ (Len(text) = 1 \/ text[1] # "0")
        THEN [t |-> "number", v |-> text]
        ELSE IF /\ Len(text) >= 2
                /\ text[1] = "\""
                /\ text[Len(text)] = "\""
                /\ \A i \in 2..(Len(text) - 1) : text[i] \notin {"\"", "\\"}
        THEN [t |-> "string", v |-> SubSeq(text, 2, Len(text) - 1)]
        ELSE Thrown

\* String(phone)
JsString(value) == value.v

\* One iteration of the for loop of readLidReverseMapping: null is a miss
\* (continue, or an exception caught by the catch block).
\* Mutant of readAttempt: normalizeE164 is called outside the try block, so
\* its failure is raised.
readAttemptNormalizeUnguarded(f, dir, name) ==
    IF <<dir, name>> \notin DOMAIN f THEN Null
    ELSE IF ~f[<<dir, name>>].readable THEN Null
    ELSE LET phone == JSONparse(f[<<dir, name>>].data)
         IN  IF phone.t = "throw" THEN Null
             ELSE IF phone.t = "null" THEN Null
             ELSE normalizeE164(JsString(phone))

\* Mutant of readAttempt: readFileSync is called outside the try block, so
\* a file that cannot be read raises.
readAttemptReadUnguarded(f, dir, name) ==
    IF <<dir, name>> \notin DOMAIN f THEN Thrown
    ELSE IF ~f[<<dir, name>>].readable THEN Thrown
    ELSE LET phone == JSONparse(f[<<dir, name>>].data)
         IN  IF phone.t = "throw" THEN Null
             ELSE IF phone.t = "null" THEN Null
             ELSE IF normalizeE164(JsString(phone)).t = "throw" THEN Null
             ELSE normalizeE164(JsString(phone))

readAttempt(f, dir, name) ==
    IF <<dir, name>> \notin DOMAIN f THEN Null
    ELSE IF ~f[<<dir, name>>].readable THEN Null
    ELSE LET phone == JSONparse(f[<<dir, name>>].data)
         IN  IF phone.t = "throw" THEN Null
             ELSE IF phone.t = "null" THEN Null
             ELSE IF normalizeE164(JsString(phone)).t = "throw" THEN Null
             ELSE normalizeE164(JsString(phone))

RECURSIVE scanDirs(_, _, _)
scanDirs(f, dirs, name) ==
    IF dirs = <<>> THEN [ret |-> Null, reads |-> <<>>]
    ELSE LET a == readAttempt(f, Head(dirs), name)
         IN  IF a.t # "null" THEN [ret |-> a, reads |-> <<Head(dirs)>>]
             ELSE LET r == scanDirs(f, Tail(dirs), name)
                  IN  [ret |-> r.ret, reads |-> <<Head(dirs)>> \o r.reads]

\* Returns [ret, reads]: the value returned and the directories read, in order.
readLidReverseMapping(lid, opts, f, c) ==
    scanDirs(f, resolveLidMappingDirs(opts, c), mappingFilename(lid))

----------------------------------------------------------------------------
(* jidToE164: returns [ret, reads, logs].  An options object that is       *)
(* absent is the record with every field unset.                            *)

MissingLog(lid) == [kind |-> "LID mapping not found", subject |-> lid]

LookupFailedLog(jid) == [kind |-> "LID mapping lookup failed", subject |-> jid]

\* Mutant of jidToE164: the whole JID, not the captured digits, names the
\* reverse-mapping file.
jidToE164WholeJidAsLid(jid, opts, f, c) ==
    LET match == JidMatch(jid, {S_WHATSAPP_NET, HOSTED})
        lidMatch == JidMatch(jid, {LID, HOSTED_LID})
        phone == readLidReverseMapping(jid, opts, f, c)
        shouldLog == IF opts.logMissing = "unset" THEN shouldLogVerbose(c)
                     ELSE opts.logMissing = "true"
    IN  IF match.matched
        THEN [ret |-> Str(<<"+">> \o match.digits), reads |-> <<>>, logs |-> <<>>]
        ELSE IF ~lidMatch.matched
        THEN [ret |-> Null, reads |-> <<>>, logs |-> <<>>]
        ELSE IF phone.ret.t = "throw" \/ Truthy(phone.ret)
        THEN [ret |-> phone.ret, reads |-> phone.reads, logs |-> <<>>]
        ELSE [ret |-> Null, reads |-> phone.reads,
              logs |-> IF shouldLog THEN <<MissingLog(lidMatch.digits)>> ELSE <<>>]

\* Mutant of jidToE164: logMissing || shouldLogVerbose() instead of ??.
jidToE164OverrideCannotSuppress(jid, opts, f, c) ==
    LET match == JidMatch(jid, {S_WHATSAPP_NET, HOSTED})
        lidMatch == JidMatch(jid, {LID, HOSTED_LID})
        phone == readLidReverseMapping(lidMatch.digits, opts, f, c)
        shouldLog == opts.logMissing = "true" \/ shouldLogVerbose(c)
    IN  IF match.matched
        THEN [ret |-> Str(<<"+">> \o match.digits), reads |-> <<>>, logs |-> <<>>]
        ELSE IF ~lidMatch.matched
        THEN [ret |-> Null, reads |-> <<>>, logs |-> <<>>]
        ELSE IF phone.ret.t = "throw" \/ Truthy(phone.ret)
        THEN [ret |-> phone.ret, reads |-> phone.reads, logs |-> <<>>]
        ELSE [ret |-> Null, reads |-> phone.reads,
              logs |-> IF shouldLog THEN <<MissingLog(lidMatch.digits)>> ELSE <<>>]

jidToE164(jid, opts, f, c) ==
    LET match == JidMatch(jid, {S_WHATSAPP_NET, HOSTED})
        lidMatch == JidMatch(jid, {LID, HOSTED_LID})
        phone == readLidReverseMapping(lidMatch.digits, opts, f, c)
        shouldLog == IF opts.logMissing = "unset" THEN shouldLogVerbose(c)
                     ELSE opts.logMissing = "true"
    IN  IF match.matched
        THEN [ret |-> Str(<<"+">> \o match.digits), reads |-> <<>>, logs |-> <<>>]
        ELSE IF ~lidMatch.matched
        THEN [ret |-> Null, reads |-> <<>>, logs |-> <<>>]
        ELSE IF phone.ret.t = "throw" \/ Truthy(phone.ret)
        THEN [ret |-> phone.ret, reads |-> phone.reads, logs |-> <<>>]
        ELSE [ret |-> Null, reads |-> phone.reads,
              logs |-> IF shouldLog THEN <<MissingLog(lidMatch.digits)>> ELSE <<>>]

----------------------------------------------------------------------------
(* resolveJidToE164, in its two synchronous parts: up to the await, and    *)
(* from the settling of the awaited promise to the return.  Both return    *)
(* the next record of the call: pc is "done" or "awaiting".                *)

Finished(value, reads, logs, lookups) ==
    [pc |-> "done", ret |-> value, reads |-> reads, logs |-> logs, lookups |-> lookups]

\* Mutant of resolveCatch: the failure is raised again.
resolveCatchRethrows(jid, reads, logs, lookups, c) ==
    Finished(Thrown, reads, logs, lookups)

\* The catch block of lines 117-122.
resolveCatch(jid, reads, logs, lookups, c) ==
    Finished(Null, reads,
             IF shouldLogVerbose(c) THEN Append(logs, LookupFailedLog(jid)) ELSE logs,
             lookups)

\* Mutant of resolveStart: a JID that ends in a LID suffix goes to the
\* capability before it is decoded locally.
resolveStartLooksUpFirst(jid, opts, syncThrow, f, c) ==
    LET direct == jidToE164(jid.v, opts, f, c)
    IN  IF ~Truthy(jid) THEN Finished(Null, <<>>, <<>>, <<>>)
        ELSE IF LidSuffixTest(jid.v) /\ opts.lidLookup = "present"
        THEN IF syncThrow THEN resolveCatch(jid.v, <<>>, <<>>, <<jid.v>>, c)
             ELSE [pc |-> "awaiting", ret |-> Null, reads |-> <<>>, logs |-> <<>>,
                   lookups |-> <<jid.v>>]
        ELSE IF direct.ret.t = "throw" \/ Truthy(direct.ret)
        THEN Finished(direct.ret, direct.reads, direct.logs, <<>>)
        ELSE Finished(Null, direct.reads, direct.logs, <<>>)

\* Lines 108-114.  jid is Null (null or undefined) or a string; syncThrow
\* says whether getPNForLID throws before it returns a promise.
resolveStart(jid, opts, syncThrow, f, c) ==
    LET direct == jidToE164(jid.v, opts, f, c)
    IN  IF ~Truthy(jid) THEN Finished(Null, <<>>, <<>>, <<>>)
        ELSE IF direct.ret.t = "throw" \/ Truthy(direct.ret)
        THEN Finished(direct.ret, direct.reads, direct.logs, <<>>)
        ELSE IF ~LidSuffixTest(jid.v)
        THEN Finished(Null, direct.reads, direct.logs, <<>>)
        ELSE IF opts.lidLookup = "absent"
        THEN Finished(Null, direct.reads, direct.logs, <<>>)
        ELSE IF syncThrow
        THEN resolveCatch(jid.v, direct.reads, direct.logs, <<jid.v>>, c)
        ELSE [pc |-> "awaiting", ret |-> Null, reads |-> direct.reads,
              logs |-> direct.logs, lookups |-> <<jid.v>>]

\* Mutant of resolveSettle: the input JID, not the JID the capability
\* returned, is decoded.
resolveSettleDecodesInput(call, outcome, f, c) ==
    LET decoded == jidToE164(call.arg.v, call.opts, f, c)
    IN  IF outcome.k = "reject"
        THEN resolveCatch(call.arg.v, call.reads, call.logs, call.lookups, c)
        ELSE IF ~Truthy(outcome.v)
        THEN Finished(Null, call.reads, call.logs, call.lookups)
        ELSE IF decoded.ret.t = "throw"
        THEN resolveCatch(call.arg.v, call.reads \o decoded.reads,
                          call.logs \o decoded.logs, call.lookups, c)
        ELSE Finished(decoded.ret, call.reads \o decoded.reads,
                      call.logs \o decoded.logs, call.lookups)

\* Mutant of resolveSettle: a returned JID that the decode misses and that
\* ends in a LID suffix is handed to the capability again.
resolveSettleLooksUpAgain(call, outcome, f, c) ==
    LET decoded == jidToE164(outcome.v.v, call.opts, f, c)
    IN  IF outcome.k = "reject"
        THEN resolveCatch(call.arg.v, call.reads, call.logs, call.lookups, c)
        ELSE IF ~Truthy(outcome.v)
        THEN Finished(Null, call.reads, call.logs, call.lookups)
        ELSE IF decoded.ret.t = "throw"
        THEN resolveCatch(call.arg.v, call.reads \o decoded.reads,
                          call.logs \o decoded.logs, call.lookups, c)
        ELSE IF ~Truthy(decoded.ret) /\ LidSuffixTest(outcome.v.v)
                /\ Len(call.lookups) < 2
        THEN [pc |-> "awaiting", ret |-> Null, reads |-> call.reads \o decoded.reads,
              logs |-> call.logs \o decoded.logs,
              lookups |-> Append(call.lookups, outcome.v.v)]
        ELSE Finished(decoded.ret, call.reads \o decoded.reads,
                      call.logs \o decoded.logs, call.lookups)

\* Mutant of resolveSettle: after a rejection the capability is invoked a
\* second time.
resolveSettleRetries(call, outcome, f, c) ==
    LET decoded == jidToE164(outcome.v.v, call.opts, f, c)
    IN  IF outcome.k = "reject" /\ Len(call.lookups) < 2
        THEN [pc |-> "awaiting", ret |-> Null, reads |-> call.reads, logs |-> call.logs,
              lookups |-> Append(call.lookups, call.arg.v)]
        ELSE IF outcome.k = "reject"
        THEN resolveCatch(call.arg.v, call.reads, call.logs, call.lookups, c)
        ELSE IF ~Truthy(outcome.v)
        THEN Finished(Null, call.reads, call.logs, call.lookups)
        ELSE IF decoded.ret.t = "throw"
        THEN resolveCatch(call.arg.v, call.reads \o decoded.reads,
                          call.logs \o decoded.logs, call.lookups, c)
        ELSE Finished(decoded.ret, call.reads \o decoded.reads,
                      call.logs \o decoded.logs, call.lookups)

\* Mutant of resolveSettle: when the capability fails or returns nothing,
\* the input JID is decoded once more.
resolveSettleRechecksLocal(call, outcome, f, c) ==
    LET decoded == jidToE164(outcome.v.v, call.opts, f, c)
        again == jidToE164(call.arg.v, call.opts, f, c)
    IN  IF outcome.k = "reject" \/ ~Truthy(outcome.v)
        THEN Finished(again.ret, call.reads \o again.reads, call.logs \o again.logs,
                      call.lookups)
        ELSE IF decoded.ret.t = "throw"
        THEN resolveCatch(call.arg.v, call.reads \o decoded.reads,
                          call.logs \o decoded.logs, call.lookups, c)
        ELSE Finished(decoded.ret, call.reads \o decoded.reads,
                      call.logs \o decoded.logs, call.lookups)

\* Lines 114-122.  outcome is [k |-> "reject"] or [k |-> "value", v |-> pnJid],
\* pnJid being Null or a string.
resolveSettle(call, outcome, f, c) ==
    LET decoded == jidToE164(outcome.v.v, call.opts, f, c)
    IN  IF outcome.k = "reject"
        THEN resolveCatch(call.arg.v, call.reads, call.logs, call.lookups, c)
        ELSE IF ~Truthy(outcome.v)
        THEN Finished(Null, call.reads, call.logs, call.lookups)
        ELSE IF decoded.ret.t = "throw"
        THEN resolveCatch(call.arg.v, call.reads \o decoded.reads,
                          call.logs \o decoded.logs, call.lookups, c)
        ELSE Finished(decoded.ret, call.reads \o decoded.reads,
                      call.logs \o decoded.logs, call.lookups)

----------------------------------------------------------------------------
(* Bounds and input sets.                                                  *)

\* Longest run of digits in the local part of an enumerated JID.
MaxDigits == 2

RECURSIVE SeqsUpTo(_, _)
SeqsUpTo(alphabet, n) ==
    IF n = 0 THEN {<<>>}
    ELSE SeqsUpTo(alphabet, n - 1)
         \cup {Append(s, ch) : s \in {t \in SeqsUpTo(alphabet, n - 1) : Len(t) = n - 1},
                                ch \in alphabet}

DigitStrs == SeqsUpTo({"1", "5"}, MaxDigits) \ {<<>>}

L55512 == <<"5", "5", "5", "1", "2">>

P15551234567 == <<"1", "5", "5", "5", "1", "2", "3", "4", "5", "6", "7">>

\* Local parts: digits, digits with a device, and parts no pattern accepts.
Devices == {<<":", "3">>, <<":", "3", "0">>}

DeviceLocals == {d \o dev : d \in DigitStrs, dev \in Devices}

OddLocals ==
    {<<>>, <<"a">>, <<"1", "a">>, <<"a", "1">>, <<":", "3">>, <<"1", ":">>,
     <<"1", "-", "5">>}

Servers ==
    {S_WHATSAPP_NET, HOSTED, LID, HOSTED_LID, <<"g", ".", "u", "s">>,
     <<"h", "o", "s", "t", "e", "d", "x", "l", "i", "d">>}

Jids ==
    {l \o <<"@">> \o sv : l \in DigitStrs \cup DeviceLocals \cup OddLocals, sv \in Servers}
    \cup DigitStrs \cup {<<>>, L55512 \o <<"@">> \o LID}

\* The argument of resolveJidToE164: a string, null or undefined.
JidArgs == {Str(j) : j \in Jids} \cup {Null}

Dirs == {"/home/u/auth", "/extra", "/oauth", "/home/u/.cfg/credentials"}

\* What the lookup capability did: nothing yet, threw before returning a
\* promise, rejected, or resolved with a value (null or a string).
NoOutcome == [k |-> "none", v |-> Null]

ThrowOutcome == [k |-> "throw", v |-> Null]

RejectOutcome == [k |-> "reject", v |-> Null]

ValueOutcome(x) == [k |-> "value", v |-> x]

Unset == [authDir |-> NoDir, lidMappingDirs |-> <<>>, logMissing |-> "unset",
          lidLookup |-> "absent"]

Idle == [pc |-> "idle", op |-> "none", arg |-> Null, opts |-> Unset, ret |-> Null,
         reads |-> <<>>, logs |-> <<>>, lookups |-> <<>>, settled |-> NoOutcome,
         origin |-> Null, during |-> {}]

Calls == {1}

File(data) == [readable |-> TRUE, data |-> data]

Unreadable == [readable |-> FALSE, data |-> <<>>]

Quoted(s) == <<"\"">> \o s \o <<"\"">>

----------------------------------------------------------------------------
(* Actions: one per exported function, the settling of the awaited lookup, *)
(* and the caller taking the result.                                       *)

\* origin: the argument of the call whose result the caller passes to this
\* call, Null when the argument is a fresh input.  during: the other calls
\* that are suspended at their await when this call begins.
Begin(c, op, arg, opts, r, origin) ==
    calls' = [calls EXCEPT ![c] =
                 [pc |-> r.pc, op |-> op, arg |-> arg, opts |-> opts, ret |-> r.ret,
                  reads |-> r.reads, logs |-> r.logs, lookups |-> r.lookups,
                  settled |-> IF r.pc = "done" /\ r.lookups # <<>>
                              THEN ThrowOutcome ELSE NoOutcome,
                  origin |-> origin,
                  during |-> {d \in DOMAIN calls \ {c} : calls[d].pc = "awaiting"}]]

CallWithWhatsAppPrefix(c, numbers) ==
    /\ calls[c].pc = "idle"
    /\ \E number \in numbers :
          Begin(c, "withWhatsAppPrefix", Str(number), Unset,
                Finished(Str(withWhatsAppPrefix(number)), <<>>, <<>>, <<>>), Null)
    /\ UNCHANGED <<fs, cfg>>

CallToWhatsappJid(c, numbers) ==
    /\ calls[c].pc = "idle"
    /\ \E number \in numbers :
          \E jid \in {toWhatsappJid(number)} :
              Begin(c, "toWhatsappJid", Str(number), Unset,
                    Finished(jid, <<>>, <<>>, <<>>), Null)
    /\ UNCHANGED <<fs, cfg>>

CallJidToE164(c, jids, options) ==
    /\ calls[c].pc = "idle"
    /\ \E jid \in jids, opts \in options :
          \E r \in {jidToE164(jid, opts, fs, cfg)} :
              Begin(c, "jidToE164", Str(jid), opts,
                    Finished(r.ret, r.reads, r.logs, <<>>), Null)
    /\ UNCHANGED <<fs, cfg>>

\* The caller decodes the JID that toWhatsappJid has just returned.
DecodeReturnedJid(c, options) ==
    /\ calls[c].pc = "done"
    /\ calls[c].op = "toWhatsappJid"
    /\ calls[c].ret.t = "str"
    /\ \E opts \in options :
          \E r \in {jidToE164(calls[c].ret.v, opts, fs, cfg)} :
              Begin(c, "jidToE164", calls[c].ret, opts,
                    Finished(r.ret, r.reads, r.logs, <<>>), calls[c].arg)
    /\ UNCHANGED <<fs, cfg>>

\* Mutant of CallResolveJidToE164: a call for a JID that another call is
\* already looking up waits for that call's lookup and does nothing itself.
CallResolveJidToE164JoinsPending(c, jids, options) ==
    /\ calls[c].pc = "idle"
    /\ \E jid \in jids, opts \in options, syncThrow \in BOOLEAN :
          \E r \in {resolveStart(jid, opts, syncThrow, fs, cfg)} :
              IF \E d \in DOMAIN calls \ {c} : calls[d].pc = "awaiting" /\ calls[d].arg = jid
              THEN Begin(c, "resolveJidToE164", jid, opts,
                         [pc |-> "awaiting", ret |-> Null, reads |-> <<>>, logs |-> <<>>,
                          lookups |-> <<>>], Null)
              ELSE Begin(c, "resolveJidToE164", jid, opts, r, Null)
    /\ UNCHANGED <<fs, cfg>>

CallResolveJidToE164(c, jids, options) ==
    /\ calls[c].pc = "idle"
    /\ \E jid \in jids, opts \in options, syncThrow \in BOOLEAN :
          \E r \in {resolveStart(jid, opts, syncThrow, fs, cfg)} :
              Begin(c, "resolveJidToE164", jid, opts, r, Null)
    /\ UNCHANGED <<fs, cfg>>

\* Mutant of LookupSettles: the number the capability found is stored as
\* the reverse-mapping file of the input LID in the OAuth directory.
LookupSettlesStoresAnswer(c, outcomes) ==
    /\ calls[c].pc = "awaiting"
    /\ \E outcome \in outcomes :
          \E r \in {resolveSettle(calls[c], outcome, fs, cfg)} :
              /\ calls' = [calls EXCEPT ![c] =
                              [calls[c] EXCEPT !.pc = r.pc, !.ret = r.ret,
                                               !.reads = r.reads, !.logs = r.logs,
                                               !.lookups = r.lookups, !.settled = outcome]]
              /\ fs' = IF r.ret.t # "str" THEN fs
                       ELSE LET name == mappingFilename(
                                            JidMatch(calls[c].arg.v, {LID, HOSTED_LID}).digits)
                                path == <<resolveUserPath(resolveOAuthDir(cfg)), name>>
                            IN  [p \in DOMAIN fs \cup {path} |->
                                    IF p = path THEN File(Quoted(Tail(r.ret.v))) ELSE fs[p]]
    /\ cfg' = cfg

LookupSettles(c, outcomes) ==
    /\ calls[c].pc = "awaiting"
    /\ \E outcome \in outcomes :
          \E r \in {resolveSettle(calls[c], outcome, fs, cfg)} :
              calls' = [calls EXCEPT ![c] =
                           [calls[c] EXCEPT !.pc = r.pc, !.ret = r.ret, !.reads = r.reads,
                                            !.logs = r.logs, !.lookups = r.lookups,
                                            !.settled = outcome]]
    /\ UNCHANGED <<fs, cfg>>

\* The external pairing subsystem creates a reverse-mapping file.
PairingWrites(names, dirs, numbers) ==
    /\ \E name \in names, dir \in dirs, number \in numbers :
          /\ <<dir, name>> \notin DOMAIN fs
          /\ fs' = [p \in DOMAIN fs \cup {<<dir, name>>} |->
                       IF p = <<dir, name>> THEN File(Quoted(number)) ELSE fs[p]]
    /\ UNCHANGED <<cfg, calls>>

Return(c) ==
    /\ calls[c].pc = "done"
    /\ calls' = [calls EXCEPT ![c] = Idle]
    /\ UNCHANGED <<fs, cfg>>

----------------------------------------------------------------------------
(* Spec: the decoder, the forward conversion and the resolver over many    *)
(* JIDs and a few file systems.                                            *)

FsOfDirs(g, name) == [p \in {<<d, name>> : d \in DOMAIN g} |-> g[p[1]]]

NoFiles == FsOfDirs([d \in {} |-> Unreadable], <<>>)

\* lid-mapping-1_reverse.json, lid-mapping-5_reverse.json,
\* lid-mapping-a_reverse.json,
\* lid-mapping-55512_reverse.json and lid-mapping-55512@lid_reverse.json
MAPPING_1 == LID_MAPPING \o <<"1">> \o REVERSE_JSON

MAPPING_5 == LID_MAPPING \o <<"5">> \o REVERSE_JSON

MAPPING_A == LID_MAPPING \o <<"a">> \o REVERSE_JSON

MAPPING_55512 == LID_MAPPING \o L55512 \o REVERSE_JSON

MAPPING_55512_AT_LID == LID_MAPPING \o L55512 \o <<"@", "l", "i", "d">> \o REVERSE_JSON

FileSystems ==
    {NoFiles,
     FsOfDirs([d \in {"/oauth", "/home/u/.cfg/credentials"} |-> File(<<"1", "5">>)],
              MAPPING_1),
     FsOfDirs([d \in Dirs |-> File(Quoted(P15551234567))], MAPPING_A)}

Configs ==
    [oauthDir : {"/oauth", "~/.cfg/credentials"}, configDir : {"/home/u/.cfg"},
     verbose : BOOLEAN]

\* The file systems go with the first configuration only, but for NoFiles.
Environments ==
    {e \in [fs : FileSystems, cfg : Configs] :
        e.fs # NoFiles => e.cfg.oauthDir = "/oauth" /\ ~e.cfg.verbose}

Options ==
    [authDir : {NoDir, "~/auth"}, lidMappingDirs : {<<>>},
     logMissing : {"unset", "true", "false"}, lidLookup : {"absent", "present"}]

DecodeOptions == {o \in Options : o.lidLookup = "absent"}

AnswerDigits == {<<"5">>, P15551234567}

AnswerJids ==
    {d \o dev \o <<"@">> \o sv :
        d \in AnswerDigits, dev \in {<<>>, <<":", "3", "0">>}, sv \in {S_WHATSAPP_NET, HOSTED}}
    \cup {<<"1", "@">> \o LID, <<"5", "@", "g", ".", "u", "s">>}

Outcomes ==
    {RejectOutcome, ValueOutcome(Null), ValueOutcome(Str(<<>>))}
    \cup {ValueOutcome(Str(j)) : j \in AnswerJids}

Init ==
    /\ \E e \in Environments : fs = e.fs /\ cfg = e.cfg
    /\ calls = [c \in Calls |-> Idle]

Next ==
    \E c \in Calls :
        \/ CallJidToE164(c, Jids, DecodeOptions)
        \/ CallResolveJidToE164(c, JidArgs, Options)
        \/ LookupSettles(c, Outcomes)
        \/ Return(c)

Spec == Init /\ [][Next]_vars

----------------------------------------------------------------------------
(* SpecStore: the reverse-mapping scan over many file systems and          *)
(* directory options, for a few LID JIDs.                                  *)

StoreContents ==
    {Unreadable, File(<<"{">>), File(JSON_NULL), File(Quoted(P15551234567)),
     File(<<"1", "5">>), File(Quoted(<<"x">>))}

StoreFileSystems ==
    {FsOfDirs(g, MAPPING_55512) :
        g \in UNION {[S -> StoreContents] : S \in SUBSET Dirs}}
    \cup {FsOfDirs(g, MAPPING_55512_AT_LID) :
            g \in UNION {[S -> {File(Quoted(P15551234567))}] : S \in SUBSET Dirs}}

StoreConfigs ==
    [oauthDir : {"/oauth"}, configDir : {"/home/u/.cfg"}, verbose : {FALSE}]

StoreOptions ==
    [authDir : {NoDir, "~/auth", "/extra"},
     lidMappingDirs : {<<>>, <<"/extra", "/home/u/auth">>, <<"/oauth">>},
     logMissing : {"unset"}, lidLookup : {"absent"}]

StoreJids == {L55512 \o <<"@">> \o LID, L55512 \o <<":", "3", "@">> \o HOSTED_LID}

InitStore ==
    /\ fs \in StoreFileSystems
    /\ cfg \in StoreConfigs
    /\ calls = [c \in Calls |-> Idle]

NextStore ==
    \E c \in Calls :
        \/ CallJidToE164(c, StoreJids, StoreOptions)
        \/ Return(c)

SpecStore == InitStore /\ [][NextStore]_vars

----------------------------------------------------------------------------
(* SpecForward: the prefix helper, the forward conversion and its round    *)
(* trip through the decoder, over many phone-number arguments.             *)

\* Longest body of an enumerated phone-number argument.
MaxNumberLen == 3

Numbers ==
    LET bodies == SeqsUpTo({"1", "5", "+", " ", "a", "@"}, MaxNumberLen)
    IN  bodies \cup {PREFIX \o b : b \in bodies}

ForwardOptions == {Unset}

InitForward ==
    /\ fs = NoFiles
    /\ cfg = [oauthDir |-> "/oauth", configDir |-> "/home/u/.cfg", verbose |-> FALSE]
    /\ calls = [c \in Calls |-> Idle]

NextForward ==
    \E c \in Calls :
        \/ CallWithWhatsAppPrefix(c, Numbers)
        \/ CallToWhatsappJid(c, Numbers)
        \/ DecodeReturnedJid(c, ForwardOptions)
        \/ Return(c)

SpecForward == InitForward /\ [][NextForward]_vars

----------------------------------------------------------------------------
(* SpecModule: the four exported functions side by side, over stores that  *)
(* hold one mapping file of every kind of content.                         *)

ModuleFileSystems ==
    {NoFiles} \cup {FsOfDirs([d \in {"/oauth"} |-> content], MAPPING_55512) :
                        content \in StoreContents}

ModuleConfigs ==
    [oauthDir : {"/oauth"}, configDir : {"/home/u/.cfg"}, verbose : BOOLEAN]

ModuleOptions ==
    [authDir : {NoDir}, lidMappingDirs : {<<>>},
     logMissing : {"unset", "true", "false"}, lidLookup : {"absent", "present"}]

ModuleJids ==
    StoreJids
    \cup {<<>>, <<"5", "@">> \o S_WHATSAPP_NET, <<"5", ":", "3", "@">> \o HOSTED,
          <<"a", "@">> \o LID, <<"5", "@">> \o LID, <<"5", "@", "g", ".", "u", "s">>}

ModuleJidArgs == {Str(j) : j \in ModuleJids} \cup {Null}

ModuleOutcomes ==
    {RejectOutcome, ValueOutcome(Null), ValueOutcome(Str(<<>>))}
    \cup {ValueOutcome(Str(j)) : j \in ModuleJids \ {<<>>}}

InitModule ==
    /\ fs \in ModuleFileSystems
    /\ cfg \in ModuleConfigs
    /\ calls = [c \in Calls |-> Idle]

NextModule ==
    \E c \in Calls :
        \/ CallWithWhatsAppPrefix(c, Numbers)
        \/ CallToWhatsappJid(c, Numbers)
        \/ CallJidToE164(c, ModuleJids, ModuleOptions)
        \/ CallResolveJidToE164(c, ModuleJidArgs, ModuleOptions)
        \/ LookupSettles(c, ModuleOutcomes)
        \/ Return(c)

SpecModule == InitModule /\ [][NextModule]_vars

----------------------------------------------------------------------------
(* SpecLive: resolveJidToE164 alone, with a capability whose promise       *)
(* settles in the end.  The continuation after the await of line 114 runs  *)
(* once the promise has settled, which weak fairness of LookupSettles      *)
(* states.                                                                 *)

InitLive ==
    /\ fs \in ModuleFileSystems
    /\ cfg \in ModuleConfigs
    /\ calls = [c \in Calls |-> Idle]

NextLive ==
    \E c \in Calls :
        \/ CallResolveJidToE164(c, ModuleJidArgs, ModuleOptions)
        \/ LookupSettles(c, ModuleOutcomes)
        \/ Return(c)

LookupEventuallySettles == \A c \in Calls : WF_vars(LookupSettles(c, ModuleOutcomes))

SpecLive == InitLive /\ [][NextLive]_vars /\ LookupEventuallySettles

----------------------------------------------------------------------------
(* SpecDirs: the decoder over an empty store, where the directories read   *)
(* are the whole list of resolveLidMappingDirs, for many caller and        *)
(* process-wide directories.                                               *)

\* Longest list of extra directories a caller passes.
MaxExtraDirs == 2

CallerDirs == {"", "/extra", "~/auth", "/home/u/auth", "/oauth", "~/.cfg/credentials"}

DirOptions ==
    [authDir : {NoDir, "", "~/auth", "/extra", "/oauth"},
     lidMappingDirs : SeqsUpTo(CallerDirs, MaxExtraDirs),
     logMissing : {"unset"}, lidLookup : {"absent"}]

DirConfigs ==
    [oauthDir : {"/oauth", "~/.cfg/credentials", "~/auth"}, configDir : {"/home/u/.cfg"},
     verbose : {FALSE}]

InitDirs ==
    /\ fs = NoFiles
    /\ cfg \in DirConfigs
    /\ calls = [c \in Calls |-> Idle]

NextDirs ==
    \E c \in Calls :
        \/ CallJidToE164(c, StoreJids, DirOptions)
        \/ Return(c)

SpecDirs == InitDirs /\ [][NextDirs]_vars

----------------------------------------------------------------------------
(* SpecConcurrent: two resolveJidToE164 calls in flight at once, each      *)
(* suspended at its await while the other runs.                            *)

Callers == {1, 2}

ConcurrentFileSystems ==
    {NoFiles,
     FsOfDirs([d \in {"/home/u/.cfg/credentials"} |-> File(<<"1", "5">>)], MAPPING_1)}

ConcurrentOptions ==
    [authDir : {NoDir}, lidMappingDirs : {<<>>}, logMissing : {"unset"},
     lidLookup : {"absent", "present"}]

ConcurrentJidArgs ==
    {Str(<<"5", "@">> \o LID), Str(<<"5", ":", "3", "@">> \o HOSTED_LID),
     Str(<<"1", "@">> \o LID)}

ConcurrentOutcomes ==
    {RejectOutcome, ValueOutcome(Null), ValueOutcome(Str(<<"5", "@">> \o S_WHATSAPP_NET)),
     ValueOutcome(Str(<<"1", "@">> \o LID))}

InitConcurrent ==
    /\ fs \in ConcurrentFileSystems
    /\ cfg \in StoreConfigs
    /\ calls = [c \in Callers |-> Idle]

NextConcurrent ==
    \E c \in Callers :
        \/ CallResolveJidToE164(c, ConcurrentJidArgs, ConcurrentOptions)
        \/ LookupSettles(c, ConcurrentOutcomes)
        \/ Return(c)

SpecConcurrent == InitConcurrent /\ [][NextConcurrent]_vars

----------------------------------------------------------------------------
(* SpecPairing: SpecConcurrent with the pairing subsystem creating the     *)
(* mapping file of LID 5 at any moment, also while a lookup is pending.    *)

InitPairing ==
    /\ fs \in ConcurrentFileSystems
    /\ cfg \in StoreConfigs
    /\ calls = [c \in Callers |-> Idle]

NextPairing ==
    \/ \E c \in Callers :
          \/ CallResolveJidToE164(c, ConcurrentJidArgs, ConcurrentOptions)
          \/ LookupSettles(c, ConcurrentOutcomes)
          \/ Return(c)
    \/ PairingWrites({MAPPING_5}, {"/oauth", "/home/u/.cfg/credentials"}, {P15551234567})

SpecPairing == InitPairing /\ [][NextPairing]_vars

----------------------------------------------------------------------------
(* Vocabulary of the claims, stated on the enumerated inputs without the   *)
(* operators of the model.                                                 *)

DoneCall(c, op) == calls[c].pc = "done" /\ calls[c].op = op

Plus(d) == Str(<<"+">> \o d)

\* d[:device]@s.whatsapp.net and d[:device]@hosted
PhoneJid(d, dev, sv) == d \o dev \o <<"@">> \o sv

DeviceSuffixes == {<<>>} \cup Devices

PhoneServers == {S_WHATSAPP_NET, HOSTED}

LidServers == {LID, HOSTED_LID}

AllLocals == DigitStrs \cup DeviceLocals \cup OddLocals \cup {L55512}

PhoneShaped ==
    {PhoneJid(d, dev, sv) : d \in DigitStrs \cup AnswerDigits, dev \in DeviceSuffixes,
                            sv \in PhoneServers}

LidShaped ==
    {PhoneJid(d, dev, sv) : d \in DigitStrs \cup {L55512}, dev \in DeviceSuffixes,
                            sv \in LidServers}

\* Strings that end in @lid or @hosted.lid.
LidSuffixed == {l \o <<"@">> \o sv : l \in AllLocals, sv \in LidServers}

\* The directories a call's options and the configuration resolve to.
ResolvedDirSet(opts, c) ==
    {resolveUserPath(d) :
        d \in ({opts.authDir, c.oauthDir, c.configDir \o "/credentials"}
               \cup {opts.lidMappingDirs[i] : i \in 1..Len(opts.lidMappingDirs)})
              \ {NoDir, ""}}

\* The lid of an enumerated LID-shaped JID.
LidOf(jid) == CHOOSE d \in DigitStrs \cup {L55512} :
                 \E dev \in DeviceSuffixes, sv \in LidServers : jid = PhoneJid(d, dev, sv)

NameOf(lid) == LID_MAPPING \o lid \o REVERSE_JSON

----------------------------------------------------------------------------
\* C1: when the lookup capability of a resolveJidToE164 call throws or its
\* promise rejects, the call completes with null: no exception or
\* rejection reaches the caller.
C1_LookupFailureAbsorbed ==
    \A c \in Calls :
        (/\ calls[c].op = "resolveJidToE164"
         /\ calls[c].lookups # <<>>
         /\ calls[c].settled.k \in {"throw", "reject"})
        => calls[c].pc = "done" /\ calls[c].ret = Null

C1_Witness ==
    \E c \in Calls :
        /\ DoneCall(c, "resolveJidToE164")
        /\ calls[c].settled.k = "reject"
        /\ calls[c].lookups # <<>>
        /\ cfg.verbose
        /\ calls[c].ret = Null

\* C2: for a LID-form JID without a reverse-mapping file in any resolved
\* directory, when the lookup capability returns d[:device]@s.whatsapp.net
\* or d[:device]@hosted, resolveJidToE164 returns "+" followed by d.
C2_LookupFallback ==
    \A c \in Calls :
        \A d \in AnswerDigits, dev \in DeviceSuffixes, sv \in PhoneServers :
            (/\ calls[c].op = "resolveJidToE164"
             /\ calls[c].arg.v \in LidShaped
             /\ \A dir \in ResolvedDirSet(calls[c].opts, cfg) :
                   <<dir, NameOf(LidOf(calls[c].arg.v))>> \notin DOMAIN fs
             /\ calls[c].settled = ValueOutcome(Str(PhoneJid(d, dev, sv))))
            => calls[c].pc = "done" /\ calls[c].ret = Plus(d)

C2_Witness ==
    \E c \in Calls :
        /\ DoneCall(c, "resolveJidToE164")
        /\ calls[c].arg = Str(<<"5", ":", "3", "@">> \o HOSTED_LID)
        /\ calls[c].settled = ValueOutcome(Str(PhoneJid(P15551234567, <<":", "3", "0">>, HOSTED)))
        /\ calls[c].ret = Plus(P15551234567)

\* C3: a JID that neither ends in @lid or @hosted.lid nor is a direct-phone
\* JID resolves to null through resolveJidToE164, and the lookup capability
\* is not invoked for it, with or without a capability supplied.
C3_NonLidNeverLookedUp ==
    \A c \in Calls :
        (/\ calls[c].op = "resolveJidToE164"
         /\ calls[c].arg.t = "str"
         /\ calls[c].arg.v \notin PhoneShaped
         /\ calls[c].arg.v \notin LidSuffixed)
        => /\ calls[c].pc = "done"
           /\ calls[c].ret = Null
           /\ calls[c].lookups = <<>>
           /\ calls[c].settled = NoOutcome

C3_Witness ==
    \E c \in Calls :
        /\ DoneCall(c, "resolveJidToE164")
        /\ calls[c].arg = Str(<<"1", "-", "5", "@", "g", ".", "u", "s">>)
        /\ calls[c].opts.lidLookup = "present"
        /\ calls[c].ret = Null
        /\ calls[c].lookups = <<>>

\* C4: every string that matches neither the direct-phone pattern nor the
\* LID pattern is non-resolvable: jidToE164 and resolveJidToE164 return null
\* for it, whatever the capability and the mapping directories hold.
C4_ThirdShapeNeverResolves ==
    \A c \in Calls :
        (/\ calls[c].pc = "done"
         /\ calls[c].op \in {"jidToE164", "resolveJidToE164"}
         /\ calls[c].arg.t = "str"
         /\ calls[c].arg.v \notin PhoneShaped
         /\ calls[c].arg.v \notin LidShaped)
        => calls[c].ret = Null

\* C8: jidToE164 of d[:s]@s.whatsapp.net and of d[:s]@hosted is "+" followed
\* by d: the device suffix is dropped and no mapping directory is read.
C8_DirectPhoneDecode ==
    \A c \in Calls :
        \A d \in DigitStrs, dev \in DeviceSuffixes, sv \in PhoneServers :
            (DoneCall(c, "jidToE164") /\ calls[c].arg = Str(PhoneJid(d, dev, sv)))
            => calls[c].ret = Plus(d) /\ calls[c].reads = <<>>

C8_Witness ==
    \E c \in Calls :
        /\ DoneCall(c, "jidToE164")
        /\ calls[c].arg = Str(<<"1", ":", "3", "@">> \o HOSTED)
        /\ <<"/oauth", MAPPING_1>> \in DOMAIN fs
        /\ calls[c].ret = Plus(<<"1">>)

----------------------------------------------------------------------------
(* Vocabulary of the claims about the reverse-mapping files.               *)

\* The caller's and the process-wide directories, in the priority order
\* the specification states, before resolution.
PriorityList(opts, c) ==
    <<opts.authDir>> \o opts.lidMappingDirs \o <<c.oauthDir, c.configDir \o "/credentials">>

PhoneContents == {File(Quoted(P15551234567)), File(<<"1", "5">>)}

RejectedScalar == File(Quoted(<<"x">>))

Faulty == {Unreadable, File(<<"{">>), File(JSON_NULL)}

PhoneValue(content) ==
    IF content = File(<<"1", "5">>) THEN Plus(<<"1", "5">>) ELSE Plus(P15551234567)

Exists(dir, name) == <<dir, name>> \in DOMAIN fs

HoldsPhone(dir, name) == Exists(dir, name) /\ fs[<<dir, name>>] \in PhoneContents

IsMiss(dir, name) == ~Exists(dir, name) \/ fs[<<dir, name>>] \in Faulty

LidDecode(c) == DoneCall(c, "jidToE164") /\ calls[c].arg.v \in LidShaped

CallName(c) == NameOf(LidOf(calls[c].arg.v))

AllDirsRead(c) ==
    Len(calls[c].reads) = Cardinality(ResolvedDirSet(calls[c].opts, cfg))

\* The file system without its faulty files.
Healthy(f) == [p \in {q \in DOMAIN f : f[q] \notin Faulty} |-> f[p]]

----------------------------------------------------------------------------
\* C5: when two resolved directories hold a reverse-mapping file for the
\* LID with different phone numbers, jidToE164 returns the number from the
\* directory that comes first in the order caller auth dir, caller extra
\* dirs as given, OAuth dir, default credentials dir.
C5_DirectoryPriority ==
    \A c \in Calls :
        LidDecode(c) =>
            LET P == PriorityList(calls[c].opts, cfg)
                holders == {i \in 1..Len(P) :
                               /\ P[i] \notin {NoDir, ""}
                               /\ HoldsPhone(resolveUserPath(P[i]), CallName(c))}
                value(i) == PhoneValue(fs[<<resolveUserPath(P[i]), CallName(c)>>])
            IN  (\E i, j \in holders : value(i) # value(j))
                => \E i \in holders :
                      /\ \A j \in holders : i <= j
                      /\ calls[c].ret = value(i)

C5_Witness ==
    \E c \in Calls :
        /\ LidDecode(c)
        /\ calls[c].opts.authDir = NoDir
        /\ calls[c].opts.lidMappingDirs = <<"/extra", "/home/u/auth">>
        /\ HoldsPhone("/extra", MAPPING_55512)
        /\ HoldsPhone("/home/u/auth", MAPPING_55512)
        /\ HoldsPhone("/oauth", MAPPING_55512)
        /\ fs[<<"/extra", MAPPING_55512>>] # fs[<<"/home/u/auth", MAPPING_55512>>]
        /\ calls[c].ret = PhoneValue(fs[<<"/extra", MAPPING_55512>>])

\* C6 as stated: the first directory whose file is read and parsed to a
\* non-null scalar ends the scan, whatever normalizing that scalar gives:
\* no later directory is read.
C6_FirstScalarEndsScan ==
    \A c \in Calls :
        LidDecode(c) =>
            \A i \in 1..Len(calls[c].reads) :
                (/\ Exists(calls[c].reads[i], CallName(c))
                 /\ fs[<<calls[c].reads[i], CallName(c)>>] \in PhoneContents \cup {RejectedScalar})
                => i = Len(calls[c].reads)

\* C6 as amended: the first directory whose file is read, parsed to a
\* non-null scalar and accepted by the normalizer ends the scan with the
\* normalized number and no later directory is read; a scalar the
\* normalizer rejects is a miss and the next directory is read.
C6_FirstAcceptedScalarEndsScan ==
    \A c \in Calls :
        LidDecode(c) =>
            /\ \A i \in 1..Len(calls[c].reads) :
                  /\ HoldsPhone(calls[c].reads[i], CallName(c))
                     => /\ i = Len(calls[c].reads)
                        /\ calls[c].ret = PhoneValue(fs[<<calls[c].reads[i], CallName(c)>>])
                  /\ (/\ Exists(calls[c].reads[i], CallName(c))
                      /\ fs[<<calls[c].reads[i], CallName(c)>>] = RejectedScalar)
                     => i < Len(calls[c].reads) \/ AllDirsRead(c)
            /\ (\A i \in 1..Len(calls[c].reads) : ~HoldsPhone(calls[c].reads[i], CallName(c)))
               => calls[c].ret = Null /\ AllDirsRead(c)

C6_Witness ==
    \E c \in Calls :
        /\ LidDecode(c)
        /\ Len(calls[c].reads) = 2
        /\ Exists(calls[c].reads[1], MAPPING_55512)
        /\ fs[<<calls[c].reads[1], MAPPING_55512>>] = RejectedScalar
        /\ HoldsPhone(calls[c].reads[2], MAPPING_55512)
        /\ ~AllDirsRead(c)
        /\ calls[c].ret = PhoneValue(fs[<<calls[c].reads[2], MAPPING_55512>>])

\* C7: a mapping file that is missing, unreadable, not valid JSON or JSON
\* null makes its directory a miss: the next directory is read, nothing is
\* raised, jidToE164 returns what it returns with that file absent, and it
\* returns null when every directory is a miss.
C7_StorageFaultsAbsorbed ==
    \A c \in Calls :
        LidDecode(c) =>
            /\ calls[c].ret.t # "throw"
            /\ \A i \in 1..Len(calls[c].reads) :
                  IsMiss(calls[c].reads[i], CallName(c))
                  => i < Len(calls[c].reads) \/ AllDirsRead(c)
            /\ calls[c].ret
                 = jidToE164(calls[c].arg.v, calls[c].opts, Healthy(fs), cfg).ret
            /\ (\A dir \in ResolvedDirSet(calls[c].opts, cfg) : IsMiss(dir, CallName(c)))
               => calls[c].ret = Null

C7_Witness ==
    \E c \in Calls :
        /\ LidDecode(c)
        /\ Len(calls[c].reads) = 4
        /\ Exists(calls[c].reads[1], MAPPING_55512)
        /\ fs[<<calls[c].reads[1], MAPPING_55512>>] = Unreadable
        /\ Exists(calls[c].reads[2], MAPPING_55512)
        /\ fs[<<calls[c].reads[2], MAPPING_55512>>] = File(<<"{">>)
        /\ Exists(calls[c].reads[3], MAPPING_55512)
        /\ fs[<<calls[c].reads[3], MAPPING_55512>>] = File(JSON_NULL)
        /\ HoldsPhone(calls[c].reads[4], MAPPING_55512)
        /\ calls[c].ret = PhoneValue(fs[<<calls[c].reads[4], MAPPING_55512>>])

\* The directories of higher priority than the OAuth directory.
AboveOAuth(c) ==
    {resolveUserPath(d) :
        d \in ({calls[c].opts.authDir}
               \cup {calls[c].opts.lidMappingDirs[i] :
                        i \in 1..Len(calls[c].opts.lidMappingDirs)}) \ {NoDir, ""}}
    \ {resolveUserPath(cfg.oauthDir)}

\* C10 as stated: with lid-mapping-55512@lid_reverse.json holding
\* "15551234567" in the OAuth directory and no mapping for the LID in a
\* directory of higher priority, jidToE164("55512@lid") is "+15551234567".
C10_FileNamedWithJid ==
    \A c \in Calls :
        (/\ DoneCall(c, "jidToE164")
         /\ calls[c].arg = Str(L55512 \o <<"@">> \o LID)
         /\ Exists(resolveUserPath(cfg.oauthDir), MAPPING_55512_AT_LID)
         /\ fs[<<resolveUserPath(cfg.oauthDir), MAPPING_55512_AT_LID>>]
              = File(Quoted(P15551234567))
         /\ \A dir \in AboveOAuth(c) :
               ~Exists(dir, MAPPING_55512_AT_LID) /\ ~Exists(dir, MAPPING_55512))
        => calls[c].ret = Plus(P15551234567)

\* C10 as amended: with lid-mapping-55512_reverse.json holding
\* "15551234567" in the OAuth directory and no mapping file for the LID in
\* a directory of higher priority, jidToE164("55512@lid") is "+15551234567".
C10_FileNamedWithLid ==
    \A c \in Calls :
        (/\ DoneCall(c, "jidToE164")
         /\ calls[c].arg = Str(L55512 \o <<"@">> \o LID)
         /\ Exists(resolveUserPath(cfg.oauthDir), MAPPING_55512)
         /\ fs[<<resolveUserPath(cfg.oauthDir), MAPPING_55512>>] = File(Quoted(P15551234567))
         /\ \A dir \in AboveOAuth(c) : ~Exists(dir, MAPPING_55512))
        => calls[c].ret = Plus(P15551234567)

C10_Witness ==
    \E c \in Calls :
        /\ DoneCall(c, "jidToE164")
        /\ calls[c].arg = Str(L55512 \o <<"@">> \o LID)
        /\ calls[c].opts.authDir = "~/auth"
        /\ DOMAIN fs = {<<"/oauth", MAPPING_55512>>, <<"/home/u/.cfg/credentials", MAPPING_55512>>}
        /\ fs[<<"/oauth", MAPPING_55512>>] = File(Quoted(P15551234567))
        /\ fs[<<"/home/u/.cfg/credentials", MAPPING_55512>>] = File(<<"1", "5">>)
        /\ calls[c].reads = <<"/home/u/auth", "/oauth">>
        /\ calls[c].ret = Plus(P15551234567)

----------------------------------------------------------------------------
\* C9: for a phone number p without '@' that the normalizer accepts,
\* toWhatsappJid(p) is a JID and jidToE164 of that JID is normalizeE164(p).
C9_RoundTrip ==
    \A c \in Calls :
        /\ (/\ DoneCall(c, "toWhatsappJid")
            /\ ~Includes(calls[c].arg.v, "@")
            /\ normalizeE164(calls[c].arg.v).t = "str")
           => calls[c].ret.t = "str"
        /\ (/\ DoneCall(c, "jidToE164")
            /\ calls[c].origin.t = "str"
            /\ ~Includes(calls[c].origin.v, "@")
            /\ normalizeE164(calls[c].origin.v).t = "str")
           => calls[c].ret = normalizeE164(calls[c].origin.v)

C9_Witness ==
    \E c \in Calls :
        /\ DoneCall(c, "jidToE164")
        /\ calls[c].origin = Str(<<"+", "1", "5">>)
        /\ calls[c].arg = Str(<<"1", "5", "@">> \o S_WHATSAPP_NET)
        /\ calls[c].ret = Plus(<<"1", "5">>)

----------------------------------------------------------------------------
\* What is left of a phone-number argument once the leading "whatsapp:" and
\* the surrounding whitespace are gone.
Remainder(number) ==
    Trim(IF StartsWith(number, PREFIX) THEN Drop(number, Len(PREFIX)) ELSE number)

\* C11: a toWhatsappJid call whose remainder contains "@" returns the
\* remainder as it is, also when the normalizer would reject it; any other
\* toWhatsappJid call throws exactly when the normalizer rejects the
\* remainder; no jidToE164 or resolveJidToE164 call throws or rejects.
C11_OnlyForwardInputFails ==
    \A c \in Calls :
        /\ DoneCall(c, "toWhatsappJid") =>
              IF \E i \in 1..Len(Remainder(calls[c].arg.v)) :
                     Remainder(calls[c].arg.v)[i] = "@"
              THEN calls[c].ret = Str(Remainder(calls[c].arg.v))
              ELSE calls[c].ret.t = "throw"
                   <=> normalizeE164(Remainder(calls[c].arg.v)).t = "throw"
        /\ calls[c].op \in {"jidToE164", "resolveJidToE164"} => calls[c].ret.t # "throw"

\* "whatsapp: a " is rejected by the normalizer and toWhatsappJid throws.
C11_Witness ==
    /\ DoneCall(1, "toWhatsappJid")
    /\ calls[1].arg = Str(PREFIX \o <<" ", "a", " ">>)
    /\ calls[1].ret = Thrown

----------------------------------------------------------------------------
\* The local scan of a resolveJidToE164 call finds a phone number.
LocallyMapped(c) ==
    /\ calls[c].arg.v \in LidShaped
    /\ \E dir \in ResolvedDirSet(calls[c].opts, cfg) : HoldsPhone(dir, CallName(c))

\* C12: a resolveJidToE164 call has invoked the capability only if its JID
\* is a non-empty string, is no direct-phone JID and has no phone number in
\* the local mapping (every resolved directory has been read by then), and
\* ends in @lid or @hosted.lid; a call with a null or empty JID returns
\* null without a file read or an invocation; a call without a capability
\* never invokes one and returns null unless the local decode succeeds.
C12_GatesBeforeLookup ==
    \A c \in Calls :
        calls[c].op = "resolveJidToE164" =>
            /\ calls[c].lookups # <<>> =>
                  /\ calls[c].arg.t = "str" /\ calls[c].arg.v # <<>>
                  /\ calls[c].arg.v \notin PhoneShaped
                  /\ ~LocallyMapped(c)
                  /\ calls[c].arg.v \in LidShaped =>
                        /\ Len(calls[c].reads) >= Cardinality(ResolvedDirSet(calls[c].opts, cfg))
                        /\ {calls[c].reads[i] :
                               i \in 1..Cardinality(ResolvedDirSet(calls[c].opts, cfg))}
                           = ResolvedDirSet(calls[c].opts, cfg)
                  /\ calls[c].arg.v \in LidSuffixed
            /\ (calls[c].arg.t # "str" \/ calls[c].arg.v = <<>>) =>
                  /\ calls[c].pc = "done" /\ calls[c].ret = Null
                  /\ calls[c].reads = <<>> /\ calls[c].lookups = <<>>
            /\ calls[c].opts.lidLookup = "absent" =>
                  /\ calls[c].pc = "done" /\ calls[c].lookups = <<>>
                  /\ calls[c].ret # Null =>
                        calls[c].arg.v \in PhoneShaped \/ LocallyMapped(c)

\* The capability has been invoked for 1:3@hosted.lid and has not settled:
\* both directories have been read already.
C12_Witness ==
    /\ calls[1].op = "resolveJidToE164"
    /\ calls[1].pc = "awaiting"
    /\ calls[1].arg = Str(<<"1", ":", "3", "@">> \o HOSTED_LID)
    /\ calls[1].reads = <<"/oauth", "/home/u/.cfg/credentials">>
    /\ calls[1].lookups = <<calls[1].arg.v>>

----------------------------------------------------------------------------
\* The number of directories the first, local decode of a call reads when
\* it finds nothing.
FirstScan(c) ==
    IF calls[c].arg.v \in LidShaped
    THEN Cardinality(ResolvedDirSet(calls[c].opts, cfg)) ELSE 0

\* C13: a resolveJidToE164 call invokes the capability at most once, with
\* the JID it was given; when the capability returns a JID of LID form the
\* call scans the local mapping of that JID, invokes nothing more and
\* returns the mapped number, or null when there is none; when it returns
\* a JID of neither form the call returns null.
C13_OneLookupThenDecode ==
    \A c \in Calls :
        calls[c].op = "resolveJidToE164" =>
            /\ Len(calls[c].lookups) <= 1
            /\ calls[c].lookups # <<>> => calls[c].lookups[1] = calls[c].arg.v
            /\ (calls[c].settled.k = "value" /\ calls[c].settled.v.t = "str") =>
                  /\ calls[c].pc = "done"
                  /\ calls[c].settled.v.v \in LidShaped =>
                        LET name == NameOf(LidOf(calls[c].settled.v.v))
                            holders == {dir \in ResolvedDirSet(calls[c].opts, cfg) :
                                           HoldsPhone(dir, name)}
                        IN  /\ Len(calls[c].reads) > FirstScan(c)
                            /\ calls[c].ret =
                                  IF holders = {} THEN Null
                                  ELSE PhoneValue(fs[<<CHOOSE dir \in holders : TRUE, name>>])
                  /\ (calls[c].settled.v.v \notin LidShaped
                      /\ calls[c].settled.v.v \notin PhoneShaped) => calls[c].ret = Null

\* The capability answers 5@lid with 1@lid, which has no mapping file: the
\* directories are scanned a second time and the call returns null.
C13_Witness ==
    /\ DoneCall(1, "resolveJidToE164")
    /\ calls[1].arg = Str(<<"5", "@">> \o LID)
    /\ calls[1].settled = ValueOutcome(Str(<<"1", "@">> \o LID))
    /\ calls[1].lookups = <<calls[1].arg.v>>
    /\ calls[1].reads = <<"/oauth", "/home/u/.cfg/credentials",
                          "/oauth", "/home/u/.cfg/credentials">>
    /\ calls[1].ret = Null

----------------------------------------------------------------------------
\* The states of the specification's state machine for call c.
AwaitingLookup(c) == calls[c].op = "resolveJidToE164" /\ calls[c].pc = "awaiting"

Resolved(c) == DoneCall(c, "resolveJidToE164") /\ calls[c].ret.t = "str"

Unresolvable(c) == DoneCall(c, "resolveJidToE164") /\ calls[c].ret = Null

\* C14: a resolveJidToE164 call goes from its start to Resolved,
\* Unresolvable or AwaitingLookup, and from AwaitingLookup to Resolved or
\* Unresolvable only; a call is in AwaitingLookup exactly while its one
\* capability invocation has not settled and then nothing of it changes;
\* when the invocation settles in the end, the call reaches Resolved or
\* Unresolvable.
C14_StateMachine ==
    /\ [](\A c \in Calls :
            /\ calls[c].pc \in {"idle", "awaiting", "done"}
            /\ calls[c].pc = "done" => Resolved(c) \/ Unresolvable(c)
            /\ AwaitingLookup(c)
               <=> Len(calls[c].lookups) = 1 /\ calls[c].settled = NoOutcome)
    /\ [][\A c \in Calls :
             /\ calls[c].pc = "idle" =>
                   calls'[c].pc = "idle" \/ AwaitingLookup(c)' \/ Resolved(c)'
                   \/ Unresolvable(c)'
             /\ AwaitingLookup(c) =>
                   \/ calls'[c] = calls[c]
                   \/ /\ Resolved(c)' \/ Unresolvable(c)'
                      /\ calls'[c].settled # NoOutcome
                      /\ calls'[c].lookups = calls[c].lookups
             /\ calls[c].pc = "done" => calls'[c] = calls[c] \/ calls'[c].pc = "idle"]_vars
    /\ \A c \in Calls : AwaitingLookup(c) ~> (Resolved(c) \/ Unresolvable(c))

\* 55512@lid has gone through AwaitingLookup and is Resolved with the
\* number of the JID the capability returned.
C14_Witness ==
    /\ Resolved(1)
    /\ calls[1].arg = Str(L55512 \o <<"@">> \o LID)
    /\ calls[1].settled = ValueOutcome(Str(<<"5", "@">> \o S_WHATSAPP_NET))
    /\ calls[1].lookups = <<calls[1].arg.v>>
    /\ calls[1].ret = Plus(<<"5">>)

----------------------------------------------------------------------------
\* The place of the first entry of the priority list P that is given and
\* resolves to dir.
FirstPlace(P, dir) ==
    CHOOSE i \in 1..Len(P) :
        /\ P[i] \notin {NoDir, ""} /\ resolveUserPath(P[i]) = dir
        /\ \A j \in 1..(i - 1) : P[j] \in {NoDir, ""} \/ resolveUserPath(P[j]) # dir

\* C17: the directories a jidToE164 call of a LID JID reads in an empty
\* store, which are the list of resolveLidMappingDirs, are absolute paths
\* without duplicates: the resolved paths of the given, non-empty entries
\* of [auth dir, extra dirs, OAuth dir, default credentials dir], each at
\* the place of its first entry; the OAuth and the default directory are
\* among them.
C17_ResolvedDirsOrderedUnique ==
    \A c \in Calls :
        LidDecode(c) =>
            LET P == PriorityList(calls[c].opts, cfg)
                R == calls[c].reads
            IN  /\ \A i \in 1..Len(R) : R[i] \in Dirs
                /\ \A i, j \in 1..Len(R) : i # j => R[i] # R[j]
                /\ {R[i] : i \in 1..Len(R)}
                   = {resolveUserPath(P[i]) : i \in {k \in 1..Len(P) : P[k] \notin {NoDir, ""}}}
                /\ \A i, j \in 1..Len(R) : i < j => FirstPlace(P, R[i]) < FirstPlace(P, R[j])
                /\ \E i \in 1..Len(R) : R[i] = resolveUserPath(cfg.oauthDir)
                /\ \E i \in 1..Len(R) : R[i] = "/home/u/.cfg/credentials"

\* ~/auth as auth dir, an empty entry and /home/u/auth as extra dirs, ~/auth
\* as OAuth dir: /home/u/auth is read once, before the default directory.
C17_Witness ==
    /\ LidDecode(1)
    /\ calls[1].opts.authDir = "~/auth"
    /\ calls[1].opts.lidMappingDirs = <<"", "/home/u/auth">>
    /\ cfg.oauthDir = "~/auth"
    /\ calls[1].reads = <<"/home/u/auth", "/home/u/.cfg/credentials">>

----------------------------------------------------------------------------
\* The flag that governs the missing-mapping diagnostic of call c.
EffectiveFlag(c) ==
    IF calls[c].opts.logMissing = "unset" THEN cfg.verbose
    ELSE calls[c].opts.logMissing = "true"

\* C18: a jidToE164 call logs "LID mapping not found" for its lid, once,
\* when its JID has the LID form, no resolved directory holds a phone
\* number for it and the effective flag (logMissing when given, else the
\* verbose predicate) is true, and logs nothing otherwise; its result is
\* "+" and the digits for a direct-phone JID, the mapped number or null for
\* a LID JID, and null for any other string, whatever the flags are.
C18_MissingLogExactlyOnMiss ==
    \A c \in Calls :
        DoneCall(c, "jidToE164") =>
            /\ calls[c].logs =
                  IF calls[c].arg.v \in LidShaped /\ ~LocallyMapped(c) /\ EffectiveFlag(c)
                  THEN <<[kind |-> "LID mapping not found",
                          subject |-> LidOf(calls[c].arg.v)]>>
                  ELSE <<>>
            /\ calls[c].ret =
                  IF calls[c].arg.v \in PhoneShaped
                  THEN Plus(CHOOSE d \in DigitStrs \cup AnswerDigits :
                               \E dev \in DeviceSuffixes, sv \in PhoneServers :
                                   calls[c].arg.v = PhoneJid(d, dev, sv))
                  ELSE IF calls[c].arg.v \in LidShaped /\ LocallyMapped(c)
                  THEN PhoneValue(fs[<<"/oauth", CallName(c)>>])
                  ELSE Null

\* The mapping file of 55512 is unreadable, verbose logging is off and the
\* call asks for the diagnostic: it is logged and the result is null.
C18_Witness ==
    /\ DoneCall(1, "jidToE164")
    /\ calls[1].arg = Str(L55512 \o <<":", "3", "@">> \o HOSTED_LID)
    /\ fs = FsOfDirs([d \in {"/oauth"} |-> Unreadable], MAPPING_55512)
    /\ ~cfg.verbose
    /\ calls[1].opts.logMissing = "true"
    /\ calls[1].logs = <<[kind |-> "LID mapping not found", subject |-> L55512]>>
    /\ calls[1].ret = Null

----------------------------------------------------------------------------
\* C16: no step of withWhatsAppPrefix, toWhatsappJid, jidToE164 or
\* resolveJidToE164, whatever it returns, changes the files of the mapping
\* directories or the configuration.
C16_StoreAndConfigUntouched == [][fs' = fs /\ cfg' = cfg]_vars

\* A resolveJidToE164 call has read the mapping file of 55512, which holds
\* null, has got a number from the capability and has returned it: the file
\* is as it was.
C16_Witness ==
    /\ DoneCall(1, "resolveJidToE164")
    /\ calls[1].arg = Str(L55512 \o <<"@">> \o LID)
    /\ calls[1].reads = <<"/oauth", "/home/u/.cfg/credentials">>
    /\ calls[1].settled = ValueOutcome(Str(<<"5", "@">> \o S_WHATSAPP_NET))
    /\ calls[1].ret = Plus(<<"5">>)
    /\ fs = FsOfDirs([d \in {"/oauth"} |-> File(JSON_NULL)], MAPPING_55512)

----------------------------------------------------------------------------
\* What the decode of JID j yields in the present store under options opts.
DecodeAlone(j, opts) ==
    IF j \in PhoneShaped
    THEN Plus(CHOOSE d \in DigitStrs \cup AnswerDigits :
                 \E dev \in DeviceSuffixes, sv \in PhoneServers : j = PhoneJid(d, dev, sv))
    ELSE IF /\ j \in LidShaped
            /\ \E dir \in ResolvedDirSet(opts, cfg) : HoldsPhone(dir, NameOf(LidOf(j)))
    THEN PhoneValue(fs[<<CHOOSE dir \in ResolvedDirSet(opts, cfg) :
                             HoldsPhone(dir, NameOf(LidOf(j))), NameOf(LidOf(j))>>])
    ELSE Null

\* What call c returns when it runs alone in the present store and the
\* capability answers as it answered c.
AloneValue(c) ==
    IF DecodeAlone(calls[c].arg.v, calls[c].opts) # Null
    THEN DecodeAlone(calls[c].arg.v, calls[c].opts)
    ELSE IF calls[c].opts.lidLookup = "absent" THEN Null
    ELSE IF calls[c].settled.k # "value" \/ calls[c].settled.v.t # "str" THEN Null
    ELSE DecodeAlone(calls[c].settled.v.v, calls[c].opts)

\* C15: with the store and the configuration unchanged, in every
\* interleaving of two resolveJidToE164 calls each call returns what it
\* returns alone for its JID, its options and the answer of the capability,
\* so two calls alike in these return the same; and each call whose JID
\* has no local mapping has read every resolved directory itself and, with
\* a capability, has invoked it itself, once, with its own JID.
C15_ConcurrentCallsIndependent ==
    \A c \in Callers :
        calls[c].op = "resolveJidToE164" =>
            /\ calls[c].pc = "done" => calls[c].ret = AloneValue(c)
            /\ DecodeAlone(calls[c].arg.v, calls[c].opts) = Null =>
                  /\ Len(calls[c].reads) >= FirstScan(c)
                  /\ {calls[c].reads[i] : i \in 1..FirstScan(c)}
                     = ResolvedDirSet(calls[c].opts, cfg)
                  /\ calls[c].opts.lidLookup = "present" =>
                        calls[c].lookups = <<calls[c].arg.v>>
            /\ \A d \in Callers :
                  (/\ DoneCall(d, "resolveJidToE164") /\ calls[c].pc = "done"
                   /\ calls[d].arg = calls[c].arg /\ calls[d].opts = calls[c].opts
                   /\ calls[d].settled = calls[c].settled)
                  => calls[d].ret = calls[c].ret

\* Call 2 for 5@lid began while call 1 for 5@lid was suspended; the
\* capability answered both with 5@s.whatsapp.net and both returned +5,
\* each after its own reads and its own invocation.
C15_Witness ==
    /\ DoneCall(1, "resolveJidToE164") /\ DoneCall(2, "resolveJidToE164")
    /\ calls[1].arg = Str(<<"5", "@">> \o LID) /\ calls[2].arg = calls[1].arg
    /\ calls[2].during = {1}
    /\ calls[1].settled = ValueOutcome(Str(<<"5", "@">> \o S_WHATSAPP_NET))
    /\ calls[2].settled = calls[1].settled
    /\ calls[1].reads = <<"/oauth", "/home/u/.cfg/credentials">>
    /\ calls[2].reads = calls[1].reads
    /\ calls[1].lookups = <<calls[1].arg.v>> /\ calls[2].lookups = calls[1].lookups
    /\ calls[1].ret = Plus(<<"5">>) /\ calls[2].ret = Plus(<<"5">>)

----------------------------------------------------------------------------
\* The capability of call c has failed or has returned nothing.
NothingFound(c) ==
    \/ calls[c].settled.k \in {"throw", "reject"}
    \/ calls[c].settled.k = "value" /\ calls[c].settled.v = Null

\* Call c has returned the number of the mapping file of its LID, without
\* invoking the capability.
SeesFile(c) ==
    /\ calls[c].pc = "done"
    /\ calls[c].ret = DecodeAlone(calls[c].arg.v, calls[c].opts)
    /\ calls[c].ret # Null
    /\ calls[c].lookups = <<>>

\* C19: when the lookup of a resolveJidToE164 call is pending, a mapping
\* file of the call's LID has appeared meanwhile and the capability fails
\* or returns nothing, the call reads no directory any more and returns
\* null; a call that begins when a file of its LID is there returns the
\* number of the file without invoking the capability.
C19_PendingCallMissesNewFile ==
    [][\A c \in Callers :
          /\ (/\ AwaitingLookup(c) /\ LocallyMapped(c)
              /\ calls'[c].pc = "done" /\ NothingFound(c)')
             => /\ calls'[c].ret = Null
                /\ calls'[c].reads = calls[c].reads
                /\ calls'[c].lookups = calls[c].lookups
          /\ (/\ calls[c].pc = "idle" /\ calls'[c].op = "resolveJidToE164"
              /\ LocallyMapped(c)')
             => SeesFile(c)']_vars

\* Call 1 for 5@lid read both directories and found no file; while its
\* lookup was pending the file appeared in the OAuth directory and call 2
\* began and returned its number; the capability then returned nothing to
\* call 1, which returned null.
C19_Witness ==
    /\ DoneCall(1, "resolveJidToE164") /\ DoneCall(2, "resolveJidToE164")
    /\ calls[1].arg = Str(<<"5", "@">> \o LID) /\ calls[2].arg = calls[1].arg
    /\ fs = FsOfDirs([d \in {"/oauth"} |-> File(Quoted(P15551234567))], MAPPING_5)
    /\ calls[1].reads = <<"/oauth", "/home/u/.cfg/credentials">>
    /\ calls[1].lookups = <<calls[1].arg.v>>
    /\ calls[1].settled = ValueOutcome(Null)
    /\ calls[1].ret = Null
    /\ calls[2].during = {1}
    /\ calls[2].reads = <<"/oauth">>
    /\ calls[2].ret = Plus(P15551234567)

====
